---- MODULE Spec2Model ----
(***************************************************************************)
(* The frame loop of Game (src/main.py): level load, the clock, pause,     *)
(* the update pass with the round-robin pathfinding queue, and the hit     *)
(* handling that follows it.  One Frame action is one iteration of the     *)
(* loop in Game.run.  Collision geometry is abstracted: which sprites      *)
(* collide in a frame is an input of the frame.                            *)
(***************************************************************************)
EXTENDS Integers, Sequences, FiniteSets

\* ------------------------------------------------------------------ bounds
NumMobs == 2            \* number of 'E' tiles of the map
MaxFrames == 7          \* Spec follows the clock for this many short frames
LongRun == 13           \* LongSpec follows it for this many
RotationRun == 9        \* RotationSpec follows it for this many: three windows
ShortDt == 2500         \* a frame's duration, ms (two of them do not exceed the window)
MOB_HEALTH == 1         \* health a mob starts with
BULLET_DAMAGE == 1      \* WEAPONS[weapon]['damage']
MOB_DAMAGE == 1         \* hit.damage
PLAYER_HEALTH == 2      \* settings.PLAYER_HEALTH; the player starts with half of it
TILESIZE == 2           \* settings.TILESIZE, px
FRAME_MS == 40          \* a frame of the player's view, ms
RATE == 50              \* WEAPONS[weapon]['rate'], ms between two shots
ANIM_TIME == 50         \* WEAPONS['animation times'][weapon][action], ms per animation frame
NumAnimFrames == 2      \* len(player_animations[weapon][action])
CLIP_SIZE == 1          \* WEAPONS[weapon]['clip size']
WEAPON_AMMO == 1        \* WeaponPickup.ammo_boost
AMMO_BOOST == 1         \* MiscPickup.AMMO_BOOST
MaxReloads == 1         \* no pickup is taken that would raise a reloads count above this
HEALTH_BOOST == 2       \* MiscPickup.HEALTH_BOOST
PLAYER_SPEED == 1000    \* settings.PLAYER_SPEED, px per second
KICKBACK == 1000        \* WEAPONS[weapon]['kickback'], px per second
ENEMY_KNOCKBACK == 12   \* settings.ENEMY_KNOCKBACK, px
ROOM == 40              \* the walls keep a hit rectangle's centre within 0..ROOM on both axes

\* ------------------------------------------------------- program constants
WINDOW == 5000          \* src/main.py:559

MobIds == 1..NumMobs
NoMob == 0
PLAYER == <<"player", NoMob>>
MobEntity(m) == <<"mob", m>>
LongDt == 3 * ShortDt   \* a long frame (or a long load): longer than the window
Dts == {ShortDt, LongDt}
Keys == {"none", "p"}

VARIABLES
    horizon,            \* the run follows the clock up to this many ms (never changes)
    phase,              \* "boot": Game.new is about to be called; "run": inside Game.run
    now,                \* pg.time.get_ticks(): ms since pg.init()
    paused,             \* Game.paused
    mobs,               \* Game.mobs, in group (insertion) order
    can_find_path,      \* Mob.can_find_path of every live mob
    health,             \* Mob.health of every live mob
    player_health,      \* Player.health
    mob_idx,            \* Game.mob_idx
    last_queue_update,  \* Game.last_queue_update
    \* history of the last frame and of the level, read by the properties
    fired,              \* the last frame fired a scheduling window
    cmp_idx,            \* the index compared against mob positions at the last firing
    granted,            \* the mob flagged by the last frame, or NoMob
    trace,              \* find_path calls and grants of the last update pass, in order
    pos_log,            \* position writes of the last update pass
    sim,                \* simulated ms since the previous firing or the level load
    sim_at_fire,        \* sim at the last firing
    waited,             \* per live mob: firings since it was last flagged
    period,             \* firings and grants since the population last changed
    prev_grant,         \* the mob flagged at the latest firing, while the group has not changed since
    \* the level and the player
    map_data,           \* Game.map.data: the rows of tile codes (never changes)
    obstacles,          \* the Obstacle sprites of Game.walls, in creation order
    graph_walls,        \* Game.game_graph.walls
    player              \* the fields of Game.player that outlive a frame (health is player_health)

vars == <<horizon, phase, now, paused, mobs, can_find_path, health, player_health, mob_idx,
          last_queue_update, fired, cmp_idx, granted, trace, pos_log, sim,
          sim_at_fire, waited, period, prev_grant, map_data, obstacles, graph_walls, player>>

Live(ms) == {ms[i] : i \in 1..Len(ms)}

\* position of mob m in the group, counted from 0 as the loop's count does
CountOf(ms, m) == (CHOOSE i \in 1..Len(ms) : ms[i] = m) - 1

\* ------------------------------------------------------------ position log
EmptyLog == [unresolved |-> {}, writes |-> {}]

\* entity.pos is assigned by step `by`
WritePos(log, e, by) ==
    [unresolved |-> log.unresolved \cup {e},
     writes |-> log.writes \cup {[entity |-> e, by |-> by]}]

\* collide_with_obstacles(entity, walls, axis) for both axes
Resolve(log, e) == [log EXCEPT !.unresolved = @ \ {e}]

\* -------------------------------------------------------------- the player
Firearms == {"handgun", "rifle", "shotgun"}
vec(x, y) == [x |-> x, y |-> y]

\* The player reads the clock only through now - last_update and
\* now - last_shot.  The model keeps these two ages instead of the two
\* timestamps; an age stops growing once it is past both thresholds.
AgeCap == (IF RATE > ANIM_TIME THEN RATE ELSE ANIM_TIME) + 1
Age(a, dt) == IF a + dt > AgeCap THEN AgeCap ELSE a + dt

\* F(e), with e evaluated once however often F reads its argument
Bind(e, F(_)) == CHOOSE r \in {F(x) : x \in {e}} : TRUE

\* n / d rounded towards zero (positions are kept in whole pixels)
Trunc(n, d) == IF n >= 0 THEN n \div d ELSE -((-n) \div d)

\* Player.__init__, called with the pixel position of the 'P' tile.  last_update
\* and last_shot start at 0, long before the first frame of a level
Player__init__(x, y) ==
    [weapon |-> "knife",
     arsenal |-> [w \in Firearms \cup {"knife"} |->
                    IF w = "knife" THEN [hasWeapon |-> TRUE]
                    ELSE [clip |-> 0, reloads |-> 0, hasWeapon |-> FALSE]],
     current_frame |-> 0,
     since_update |-> AgeCap,
     since_shot |-> AgeCap,
     play_static_animation |-> FALSE,
     canned_action |-> "",
     direction |-> "E",
     pos |-> vec(x * TILESIZE, y * TILESIZE),
     hit_rect |-> vec(0, 0)]

\* Player.update_direction; rot in tenths of a degree.  No branch takes a
\* rot above 180 degrees: direction is then left as it was
update_direction(rot, direction) ==
    IF -225 < rot /\ rot <= 225 THEN "E"
    ELSE IF 225 < rot /\ rot <= 675 THEN "NE"
    ELSE IF 675 < rot /\ rot <= 1125 THEN "N"
    ELSE IF 1125 < rot /\ rot <= 1575 THEN "NW"
    ELSE IF (1575 < rot /\ rot <= 1800) \/ (-1800 < rot /\ rot <= -1575) THEN "W"
    ELSE IF -1575 < rot /\ rot <= -1125 THEN "SW"
    ELSE IF -1125 < rot /\ rot <= -675 THEN "S"
    ELSE IF -675 < rot /\ rot <= -225 THEN "SE"
    ELSE direction

\* Player.update_rotation: angle is target_dist.angle_to(vec(1, 0)), in tenths
\* of a degree, a value of -1800 .. 1799; the offset of 2 degrees is added
update_rotation(angle, direction) ==
    LET rot == angle + 20
    IN [rot |-> rot, direction |-> update_direction(rot, direction)]

\* vec(1, 0).rotate(-rot), to the nearest of the eight compass headings
Heading(rot) ==
    LET r == IF rot > 1800 THEN rot - 3600 ELSE rot
        cx == IF -675 < r /\ r <= 675 THEN 1 ELSE IF r > 1125 \/ r <= -1125 THEN -1 ELSE 0
        sy == IF 225 < r /\ r <= 1575 THEN 1 ELSE IF -1575 < r /\ r <= -225 THEN -1 ELSE 0
    IN vec(cx, -sy)

\* Player.handle_player_movement: 'd' is read after 'a' and 's' after 'w'
handle_player_movement(keys, stamina) ==
    LET speed == IF "SPACE" \in keys /\ stamina > 0 THEN PLAYER_SPEED * 2 ELSE PLAYER_SPEED
    IN [vel |-> vec(IF "d" \in keys THEN speed ELSE IF "a" \in keys THEN -speed ELSE 0,
                    IF "s" \in keys THEN speed ELSE IF "w" \in keys THEN -speed ELSE 0),
        action |-> IF keys \cap {"a", "d", "w", "s"} # {} THEN "move" ELSE "idle"]

\* the selection takes the first key pressed, owned or not
handle_weapon_selection_AnyWeapon(w, keys) ==
    LET to == IF "1" \in keys /\ w.p.weapon # "rifle" THEN "rifle"
              ELSE IF "2" \in keys /\ w.p.weapon # "shotgun" THEN "shotgun"
              ELSE IF "3" \in keys /\ w.p.weapon # "handgun" THEN "handgun"
              ELSE IF "4" \in keys /\ w.p.weapon # "knife" THEN "knife"
              ELSE w.p.weapon
    IN IF to = w.p.weapon THEN w
       ELSE [w EXCEPT !.p.weapon = to, !.p.current_frame = 0, !.did = @ \cup {"switch"}]

\* Player.handle_weapon_selection.  w: the player with the action, velocity and
\* rotation of the frame, and the operations the input has started (did)
handle_weapon_selection(w, keys) ==
    LET has(x) == w.p.arsenal[x].hasWeapon
        to == IF "1" \in keys /\ has("rifle") /\ w.p.weapon # "rifle" THEN "rifle"
              ELSE IF "2" \in keys /\ has("shotgun") /\ w.p.weapon # "shotgun" THEN "shotgun"
              ELSE IF "3" \in keys /\ has("handgun") /\ w.p.weapon # "handgun" THEN "handgun"
              ELSE IF "4" \in keys /\ w.p.weapon # "knife" THEN "knife"
              ELSE w.p.weapon
    IN IF to = w.p.weapon THEN w
       ELSE [w EXCEPT !.p.weapon = to, !.p.current_frame = 0, !.did = @ \cup {"switch"}]

\* a shot takes two rounds out of the clip
shoot_TwoRounds(w) ==
    IF w.p.since_shot > RATE
    THEN [w EXCEPT !.p.since_shot = 0,
                   !.vel = vec(-KICKBACK * Heading(w.rot).x, -KICKBACK * Heading(w.rot).y),
                   !.p.arsenal[w.p.weapon].clip = @ - 2,
                   !.did = @ \cup {"shoot"}]
    ELSE w

\* Player.shoot: paced by the weapon's rate; the kickback replaces the velocity
shoot(w) ==
    IF w.p.since_shot > RATE
    THEN [w EXCEPT !.p.since_shot = 0,
                   !.vel = vec(-KICKBACK * Heading(w.rot).x, -KICKBACK * Heading(w.rot).y),
                   !.p.arsenal[w.p.weapon].clip = @ - 1,
                   !.did = @ \cup {"shoot"}]
    ELSE w

\* Player.reload
reload(w) ==
    [w EXCEPT !.p.arsenal[w.p.weapon].reloads = @ - 1,
              !.p.arsenal[w.p.weapon].clip = CLIP_SIZE,
              !.action = "reload",
              !.p.canned_action = "reload",
              !.p.current_frame = 0,
              !.p.play_static_animation = TRUE,
              !.did = @ \cup {"reload"}]

\* Player.handle_combat_controls: left click, then K_r, then right click
handle_combat_controls(w, in) ==
    LET a1 == IF in.lc /\ w.p.weapon # "knife"
              THEN IF w.p.arsenal[w.p.weapon].clip # 0
                   THEN shoot([w EXCEPT !.action = "shoot"])
                   ELSE IF w.p.arsenal[w.p.weapon].reloads > 0 /\ ~w.p.play_static_animation
                        THEN reload(w)
                        ELSE w
              ELSE w
        a2 == IF /\ "r" \in in.keys
                 /\ a1.p.weapon # "knife"
                 /\ a1.action # "reload"
                 /\ a1.p.arsenal[a1.p.weapon].reloads > 0
              THEN reload(a1)
              ELSE a1
    IN IF in.rc /\ a2.action # "reload" /\ in.stamina > 0
       THEN [a2 EXCEPT !.action = "melee",
                       !.p.current_frame = 0,
                       !.p.canned_action = "melee",
                       !.p.play_static_animation = TRUE,
                       !.did = @ \cup {"melee"}]
       ELSE a2

\* the weapon keys and the combat controls are read in every frame
accepts_controls_Always(p) == TRUE

\* the test of process_input: the weapon keys and the combat controls are read
\* only while no reload or melee animation is playing
accepts_controls(p) == ~p.play_static_animation

\* Player.process_input
process_input(p, in) ==
    LET r == update_rotation(in.angle, p.direction)
        m == handle_player_movement(in.keys, in.stamina)
        controls(w0) ==
            IF accepts_controls(p)
            THEN Bind(handle_weapon_selection(w0, in.keys),
                      LAMBDA w1 : handle_combat_controls(w1, in))
            ELSE w0
        diagonal(w) ==
            IF w.vel.x # 0 /\ w.vel.y # 0
            THEN [w EXCEPT !.vel = vec(Trunc(w.vel.x * 7071, 10000),
                                       Trunc(w.vel.y * 7071, 10000))]
            ELSE w
    IN Bind(Bind([p |-> [p EXCEPT !.direction = r.direction],
                  action |-> m.action, vel |-> m.vel, rot |-> r.rot, did |-> {}],
                 controls),
            diagonal)

\* the canned animation starts over after its last frame
animate_Looping(p) ==
    IF p.since_update > ANIM_TIME
    THEN [p EXCEPT !.since_update = 0, !.current_frame = (@ + 1) % NumAnimFrames]
    ELSE p

\* Player.animate.  A canned (reload or melee) animation moves one frame on when
\* its time is up; past the last frame the IndexError handler ends it
animate(p) ==
    IF ~p.play_static_animation
    THEN IF p.since_update > ANIM_TIME
         THEN [p EXCEPT !.since_update = 0,
                        !.current_frame = ((@ % NumAnimFrames) + 1) % NumAnimFrames]
         ELSE [p EXCEPT !.current_frame = @ % NumAnimFrames]
    ELSE IF p.since_update > ANIM_TIME
         THEN IF p.current_frame + 1 >= NumAnimFrames
              THEN [p EXCEPT !.since_update = 0,
                             !.play_static_animation = FALSE,
                             !.canned_action = "",
                             !.current_frame = 0]
              ELSE [p EXCEPT !.since_update = 0, !.current_frame = @ + 1]
         ELSE p

\* collide_with_obstacles(sprite, walls, axis): a hit rectangle that has entered
\* a wall is put back at the wall's near edge along the axis, and the position
\* with it
collide_with_obstacles(p, axis) ==
    LET c == p.hit_rect[axis]
        back == IF c < 0 THEN 0 ELSE IF c > ROOM THEN ROOM ELSE c
    IN IF back = c THEN p
       ELSE [p EXCEPT !.pos[axis] = back, !.hit_rect[axis] = back]

\* the hit rectangle is moved along both axes before the first resolution
move_BothAxesFirst(p, vel, dt) ==
    LET p1 == [p EXCEPT !.pos = vec(p.pos.x + Trunc(vel.x * dt, 1000),
                                    p.pos.y + Trunc(vel.y * dt, 1000))]
        p2 == [p1 EXCEPT !.hit_rect = p1.pos]
        p3 == collide_with_obstacles(p2, "x")
        p4 == [p3 EXCEPT !.hit_rect.y = p3.pos.y]
        p5 == collide_with_obstacles(p4, "y")
    IN [p |-> p5,
        calls |-> <<[axis |-> "x", hit_rect |-> p2.hit_rect],
                    [axis |-> "y", hit_rect |-> p4.hit_rect]>>]

\* the last lines of Player.update: the position is advanced, then the hit
\* rectangle is moved and resolved along x, then along y.  calls: the calls of
\* the resolver, with the hit rectangle each one is handed
move(p, vel, dt) ==
    LET p1 == [p EXCEPT !.pos = vec(p.pos.x + Trunc(vel.x * dt, 1000),
                                    p.pos.y + Trunc(vel.y * dt, 1000))]
        p2 == [p1 EXCEPT !.hit_rect.x = p1.pos.x]
        p3 == collide_with_obstacles(p2, "x")
        p4 == [p3 EXCEPT !.hit_rect.y = p3.pos.y]
        p5 == collide_with_obstacles(p4, "y")
    IN [p |-> p5,
        calls |-> <<[axis |-> "x", hit_rect |-> p2.hit_rect],
                    [axis |-> "y", hit_rect |-> p4.hit_rect]>>]

\* Player.update.  in: the keys held, the mouse buttons, the angle to the mouse,
\* whether stamina is left, and the frame's duration
Player_update(p, in) ==
    LET moved(i) ==
            Bind(Bind(animate(i.p), LAMBDA a : move(a, i.vel, in.dt)),
                 LAMBDA m : [p |-> m.p, calls |-> m.calls, did |-> i.did,
                             action |-> i.action, rot |-> i.rot, vel |-> i.vel])
    IN Bind(Bind([p EXCEPT !.since_update = Age(@, in.dt), !.since_shot = Age(@, in.dt)],
                 LAMBDA p0 : process_input(p0, in)),
            moved)

\* Player.pickup_item.  Ammunition taken with the knife in hand looks the
\* arsenal up by the numbers of enumerate() and raises KeyError.  Health above
\* PLAYER_HEALTH is assigned to a new attribute, heatlh; health stays as added
pickup_item(p, hp, item) ==
    IF item.kind = "weapon"
    THEN [p |-> IF p.arsenal[item.type].hasWeapon
                THEN [p EXCEPT !.arsenal[item.type].reloads = @ + item.ammo_boost]
                ELSE [p EXCEPT !.arsenal[item.type] =
                         [hasWeapon |-> TRUE, reloads |-> item.ammo_boost - 1,
                          clip |-> CLIP_SIZE]],
          health |-> hp, raised |-> FALSE]
    ELSE IF item.kind = "ammo"
    THEN IF p.weapon = "knife"
         THEN [p |-> p, health |-> hp, raised |-> TRUE]
         ELSE [p |-> [p EXCEPT !.arsenal[p.weapon].reloads = @ + AMMO_BOOST],
               health |-> hp, raised |-> FALSE]
    ELSE [p |-> p, health |-> hp + HEALTH_BOOST, raised |-> FALSE]

\* --------------------------------------------------------------- the level
\* the map of the level the scheduler is followed on: the player, a wall and
\* one 'E' tile per mob, in one row
DefaultMap == << <<"P", "1">> \o [i \in MobIds |-> "E"] >>

\* the <<col, row>> of the tiles of one row that hold `code`, by rising column
RowTiles(tiles, row, code) ==
    LET cols == SelectSeq([c \in 1..Len(tiles) |-> c], LAMBDA c : tiles[c] = code)
    IN [k \in 1..Len(cols) |-> <<cols[k] - 1, row>>]

\* the tiles of the whole map that hold `code`, in the order the two loops of
\* Game.new meet them: row by row, and by rising column in a row
RECURSIVE TilesFrom(_, _, _)
TilesFrom(data, r, code) ==
    IF r > Len(data) THEN <<>>
    ELSE RowTiles(data[r], r - 1, code) \o TilesFrom(data, r + 1, code)

\* wall_positions / mob_positions: (col * TILESIZE, row * TILESIZE) of each tile
positions(data, code) ==
    LET ts == TilesFrom(data, 1, code)
    IN [k \in 1..Len(ts) |-> <<ts[k][1] * TILESIZE, ts[k][2] * TILESIZE>>]

\* Obstacle(self, x, y): the sprite is created with the position it is given
Obstacle(x, y) == [x |-> x, y |-> y]

\* the graph is handed the pixel positions, not the tiles
graph_tiles_Unscaled(wall_positions) ==
    [k \in 1..Len(wall_positions) |-> <<wall_positions[k][1], wall_positions[k][2]>>]

\* the walls handed to the graph: one tile per entry of wall_positions
graph_tiles(wall_positions) ==
    [k \in 1..Len(wall_positions) |->
        <<wall_positions[k][1] \div TILESIZE, wall_positions[k][2] \div TILESIZE>>]

\* ---------------------------------------------------------------- Game.new
new(t) ==
    /\ phase = "boot"
    /\ now + t <= horizon
    /\ now' = now + t
    /\ UNCHANGED <<horizon, map_data>>
    /\ phase' = "run"
    /\ paused' = FALSE
    /\ LET wall_positions == positions(map_data, "1")
           mob_positions == positions(map_data, "E")
           starts == positions(map_data, "P")
           ids == 1..Len(mob_positions)
       IN /\ obstacles' = [k \in 1..Len(wall_positions) |->
                              Obstacle(wall_positions[k][1], wall_positions[k][2])]
          /\ graph_walls' = graph_tiles(wall_positions)
          /\ player' = IF starts = <<>> THEN player
                       ELSE Player__init__(starts[Len(starts)][1], starts[Len(starts)][2])
          /\ mobs' = [i \in ids |-> i]
          /\ can_find_path' = [m \in ids |-> FALSE]
          /\ health' = [m \in ids |-> MOB_HEALTH]
          /\ waited' = [m \in ids |-> 0]
          /\ period' = [n |-> 0, removed |-> 0, grants |-> [m \in ids |-> 0]]
    /\ player_health' = PLAYER_HEALTH \div 2
    /\ mob_idx' = 0
    /\ last_queue_update' = 0
    /\ fired' = FALSE
    /\ cmp_idx' = 0
    /\ granted' = NoMob
    /\ prev_grant' = NoMob
    /\ trace' = <<>>
    /\ pos_log' = EmptyLog
    /\ sim' = 0
    /\ sim_at_fire' = 0

\* ---------------------------------------------------------- Game.find_path
\* The search request handed to Pathfinder.a_star_search: from the predator's
\* tile to the prey's tile.  The method does not read can_find_path.
find_path(predator, prey) == [from |-> predator, to |-> prey]

\* ------------------------------------------------------------- Game.events
\* K_p toggles the pause (the debug and hardcore keys and QUIT are left out)
events(key, p) ==
    [paused |-> IF key = "p" THEN ~p ELSE p]

\* ------------------------------------------------------------ Player.update
player_update(log) == Resolve(WritePos(log, PLAYER, "update"), PLAYER)

\* -------------------------------------------------------------- Mob.update
\* a mob asks for a path when it has a search to run (seeks) and holds the grant
MobWantsPathUngated(flag, seeks) == seeks
MobWantsPath(flag, seeks) == flag /\ seeks

\* a mob whose health is used up removes itself from the groups
MobDies(hp) == hp <= 0

\* Eligible -> Dispatched -> Idle: the search is issued through Game.find_path
\* and the grant is used up; then the mob moves and is resolved against the walls
mob_update(m, flag, seeks, log) ==
    [calls |-> IF MobWantsPath(flag, seeks)
               THEN <<[op |-> "find_path", mob |-> m, granted |-> flag,
                       request |-> find_path(MobEntity(m), PLAYER)]>>
               ELSE <<>>,
     flag |-> flag /\ ~MobWantsPath(flag, seeks),
     log |-> Resolve(WritePos(log, MobEntity(m), "update"), MobEntity(m))]

\* the loop over all_sprites of Game.update: the player, then every mob in
\* group order.  seeks: the mobs have a search to run this frame
sprites_update(ms, hp, cfp, seeks) ==
    LET kept == SelectSeq(ms, LAMBDA m : ~MobDies(hp[m]))
        Upd[i \in 0..Len(kept)] ==
            IF i = 0
            THEN [trace |-> <<>>, log |-> player_update(EmptyLog)]
            ELSE LET r == mob_update(kept[i], cfp[kept[i]], seeks, Upd[i - 1].log)
                 IN [trace |-> Upd[i - 1].trace \o r.calls, log |-> r.log]
    IN [mobs |-> kept,
        health |-> [m \in Live(kept) |-> hp[m]],
        cfp |-> [m \in Live(kept) |-> mob_update(m, cfp[m], seeks, EmptyLog).flag],
        trace |-> Upd[Len(kept)].trace,
        log |-> Upd[Len(kept)].log]

\* ------------------------------------------ Game.update_pathfinding_queue
\* the index moves on by two at every firing
update_pathfinding_queue_SkipsOne(t, last, idx, ms, cfp) ==
    IF t - last > WINDOW
    THEN LET i == IF idx = Len(ms) THEN 0 ELSE idx
         IN [last |-> t,
             idx |-> i + 2,
             cfp |-> [m \in Live(ms) |-> CountOf(ms, m) = i],
             fired |-> TRUE,
             cmp |-> i,
             trace |-> IF i < Len(ms)
                       THEN <<[op |-> "grant", mob |-> ms[i + 1]]>>
                       ELSE <<>>]
    ELSE [last |-> last, idx |-> idx, cfp |-> cfp, fired |-> FALSE, cmp |-> idx,
          trace |-> <<>>]

update_pathfinding_queue(t, last, idx, ms, cfp) ==
    IF t - last > WINDOW
    THEN LET i == IF idx = Len(ms) THEN 0 ELSE idx
         IN [last |-> t,
             idx |-> i + 1,
             cfp |-> [m \in Live(ms) |-> CountOf(ms, m) = i],
             fired |-> TRUE,
             cmp |-> i,
             trace |-> IF i < Len(ms)
                       THEN <<[op |-> "grant", mob |-> ms[i + 1]]>>
                       ELSE <<>>]
    ELSE [last |-> last, idx |-> idx, cfp |-> cfp, fired |-> FALSE, cmp |-> idx,
          trace |-> <<>>]

\* ------------------------------------------------------------- Game.update
\* the first half of the pass: every sprite's update, then the queue
update_sprites(t, seeks) ==
    LET s == sprites_update(mobs, health, can_find_path, seeks)
        q == update_pathfinding_queue(t, last_queue_update, mob_idx, s.mobs, s.cfp)
    IN [mobs |-> s.mobs, health |-> s.health, cfp |-> q.cfp,
        idx |-> q.idx, last |-> q.last, fired |-> q.fired, cmp |-> q.cmp,
        trace |-> s.trace \o q.trace, log |-> s.log,
        killed |-> Len(mobs) - Len(s.mobs)]

\* the second half: the collision tests.  melee, bullet: the mob the test
\* reports, or NoMob; enemy: some mob touches the player; attack: it can attack
update_hits(u, melee, enemy, attack, bullet) ==
    LET \* player hits mobs
        hp1 == [m \in Live(u.mobs) |-> IF m = melee THEN u.health[m] - u.health[m]
                                         ELSE u.health[m]]
        \* enemy hits player
        ph == IF enemy /\ attack THEN player_health - MOB_DAMAGE ELSE player_health
        log1 == IF enemy THEN WritePos(u.log, PLAYER, "enemy hit") ELSE u.log
        \* bullet collisions
        hp2 == [m \in Live(u.mobs) |-> IF m = bullet THEN hp1[m] - BULLET_DAMAGE ELSE hp1[m]]
        log2 == IF bullet # NoMob THEN WritePos(log1, MobEntity(bullet), "bullet hit") ELSE log1
    IN [health |-> hp2, player_health |-> ph, log |-> log2,
        playing |-> ~(enemy /\ attack /\ ph <= 0)]

\* ------------------------------------------------- the inputs of a frame
\* what the collision tests of a frame report: at most one mob is struck, by
\* the swing or by a bullet, and a mob may touch the player, able to attack or not
Collisions(ms) ==
    LET Struck == {[melee |-> NoMob, bullet |-> NoMob]}
                    \cup {[melee |-> m, bullet |-> NoMob] : m \in Live(ms)}
                    \cup {[melee |-> NoMob, bullet |-> m] : m \in Live(ms)}
        Touch == {[enemy |-> FALSE, attack |-> FALSE]}
                    \cup (IF ms = <<>> THEN {}
                          ELSE {[enemy |-> TRUE, attack |-> a] : a \in BOOLEAN})
    IN {[melee |-> s.melee, bullet |-> s.bullet, enemy |-> e.enemy, attack |-> e.attack] :
            s \in Struck, e \in Touch}

\* whether the mobs have a search to run this frame; the choice is open only
\* while some mob holds a grant
Seeking == {TRUE} \cup {\A m \in Live(mobs) : ~can_find_path[m]}

\* ----------------------------------------------- one iteration of Game.run
Frame(dt, key) ==
    /\ phase = "run"
    /\ now + dt <= horizon
    /\ UNCHANGED <<horizon, map_data, obstacles, graph_walls, player>>
    /\ LET t == now + dt
           e == events(key, paused)
       IN /\ now' = t
          /\ paused' = e.paused
          /\ IF e.paused
             THEN /\ phase' = "run"
                  /\ fired' = FALSE
                  /\ cmp_idx' = 0
                  /\ granted' = NoMob
                  /\ sim_at_fire' = 0
                  /\ UNCHANGED <<mobs, can_find_path, health, player_health, mob_idx,
                                 last_queue_update, trace, pos_log, sim,
                                 waited, period, prev_grant>>
             ELSE \E seeks \in Seeking :
                  LET u == update_sprites(t, seeks)
                      g == IF u.fired
                           THEN {m \in Live(u.mobs) : u.cfp[m]}
                           ELSE {}
                      p0 == IF u.killed > 0
                            THEN [n |-> 0, removed |-> period.removed + u.killed,
                                  grants |-> [m \in Live(u.mobs) |-> 0]]
                            ELSE period
                  IN /\ mobs' = u.mobs
                     /\ can_find_path' = u.cfp
                     /\ mob_idx' = u.idx
                     /\ last_queue_update' = u.last
                     /\ fired' = u.fired
                     /\ cmp_idx' = IF u.fired THEN u.cmp ELSE 0
                     /\ granted' = IF g = {} THEN NoMob ELSE CHOOSE m \in g : TRUE
                     /\ prev_grant' = IF u.fired
                                      THEN (IF g = {} THEN NoMob ELSE CHOOSE m \in g : TRUE)
                                      ELSE IF u.killed > 0 THEN NoMob ELSE prev_grant
                     /\ trace' = u.trace
                     /\ sim' = IF u.fired THEN 0 ELSE sim + dt
                     /\ sim_at_fire' = IF u.fired THEN sim + dt ELSE 0
                     /\ waited' = [m \in Live(u.mobs) |->
                                     IF ~u.fired THEN waited[m]
                                     ELSE IF m \in g THEN 0 ELSE waited[m] + 1]
                     /\ period' = IF u.fired
                                  THEN [n |-> p0.n + 1, removed |-> p0.removed,
                                        grants |-> [m \in Live(u.mobs) |->
                                                      IF m \in g THEN p0.grants[m] + 1
                                                      ELSE p0.grants[m]]]
                                  ELSE p0
                     /\ \E c \in Collisions(u.mobs) :
                          LET h == update_hits(u, c.melee, c.enemy, c.attack, c.bullet)
                          IN /\ health' = h.health
                             /\ player_health' = h.player_health
                             /\ pos_log' = h.log
                             /\ phase' = IF h.playing THEN "run" ELSE "boot"

Booted ==
    /\ phase = "boot"
    /\ now = 0
    /\ paused = FALSE
    /\ mobs = <<>>
    /\ can_find_path = <<>>
    /\ health = <<>>
    /\ player_health = 0
    /\ mob_idx = 0
    /\ last_queue_update = 0
    /\ fired = FALSE
    /\ cmp_idx = 0
    /\ granted = NoMob
    /\ trace = <<>>
    /\ pos_log = EmptyLog
    /\ sim = 0
    /\ sim_at_fire = 0
    /\ waited = <<>>
    /\ period = [n |-> 0, removed |-> 0, grants |-> <<>>]
    /\ prev_grant = NoMob
    /\ obstacles = <<>>
    /\ graph_walls = <<>>
    /\ player = Player__init__(0, 0)

Init == horizon = MaxFrames * ShortDt /\ map_data = DefaultMap /\ Booted

LongInit == horizon = LongRun * ShortDt /\ map_data = DefaultMap /\ Booted

Next ==
    \/ \E t \in Dts : new(t)
    \/ \E dt \in Dts, key \in Keys : Frame(dt, key)

Spec == Init /\ [][Next]_vars

\* the same program followed for longer: enough windows for a rotation to
\* wrap around and go on after a removal
LongSpec == LongInit /\ [][Next]_vars

\* the same program followed long enough for the rotation over two mobs to
\* come round
RotationInit == horizon = RotationRun * ShortDt /\ map_data = DefaultMap /\ Booted

RotationSpec == RotationInit /\ [][Next]_vars

\* ------------------------------------------------------- the level loader
\* the maps the loader is followed on: the player's tile, then four tiles that
\* are a wall, a floor or a mob's tile each, in two rows of unequal length
MapTiles == {"1", ".", "E"}
Maps == {<< <<"P", a, b>>, <<c, d>> >> : a \in MapTiles, b \in MapTiles,
                                        c \in MapTiles, d \in MapTiles}

MapInit == horizon = LongDt /\ map_data \in Maps /\ Booted

MapNext == \E t \in Dts : new(t)

MapSpec == MapInit /\ [][MapNext]_vars

\* ------------------------------------------------------- the player's view
\* One iteration of Game.run seen from the player: Player.update, then the
\* enemy hit and the item collision of Game.update.  The mobs and the clock of
\* the scheduler are not followed here; what the collision tests report (ev)
\* is an input of the frame: nothing, an enemy that attacks, or an item.
NoEvent == [kind |-> "none", type |-> "", ammo_boost |-> 0]
EnemyHit == [kind |-> "hit", type |-> "", ammo_boost |-> 0]
WeaponPickup(type) == [kind |-> "weapon", type |-> type, ammo_boost |-> WEAPON_AMMO]
MiscPickup(type) == [kind |-> type, type |-> type, ammo_boost |-> 0]

\* the enemy hit of Game.update: the health lost and the knockback
enemy_hit(p, hp, hit) ==
    [p |-> IF hit THEN [p EXCEPT !.pos.x = @ + ENEMY_KNOCKBACK] ELSE p,
     health |-> IF hit THEN hp - MOB_DAMAGE ELSE hp,
     playing |-> ~(hit /\ hp - MOB_DAMAGE <= 0)]

PlayerFrame(in, ev) ==
    /\ phase = "run"
    /\ ~paused
    /\ ev.kind = "health" => player_health <= PLAYER_HEALTH
    /\ \E u \in {Player_update(player, in)} :
       \E h \in {enemy_hit(u.p, player_health, ev.kind = "hit")} :
       \E k \in {IF ev.kind \in {"weapon", "ammo", "health"}
                 THEN pickup_item(h.p, h.health, ev)
                 ELSE [p |-> h.p, health |-> h.health, raised |-> FALSE]} :
          /\ \A w \in Firearms : k.p.arsenal[w].reloads <= MaxReloads
          /\ player' = k.p
          /\ player_health' = k.health
          /\ phase' = IF k.raised THEN "crashed"
                      ELSE IF h.playing THEN "run"
                      ELSE "boot"
    /\ UNCHANGED <<horizon, now, paused, mobs, can_find_path, health, mob_idx,
                   last_queue_update, fired, cmp_idx, granted, trace, pos_log, sim,
                   sim_at_fire, waited, period, prev_grant, map_data, obstacles,
                   graph_walls>>

PlayerDts == {FRAME_MS, 2 * FRAME_MS}

\* the weapon keys, the reload key and the mouse buttons; the mouse stays put
CombatKeys == {{}, {"1"}, {"2"}, {"3"}, {"4"}, {"r"}, {"1", "4"}, {"3", "r"}}
CombatInputs == [keys : CombatKeys, lc : BOOLEAN, rc : BOOLEAN, angle : {0},
                 stamina : {1}, dt : PlayerDts]
CombatEvents == {NoEvent, WeaponPickup("handgun"), WeaponPickup("rifle"), MiscPickup("ammo")}

\* the movement keys and the mouse; no button is pressed and nothing is met.
\* Whether stamina is left matters only while SPACE is held
MotionKeys == {{}, {"a"}, {"w"}, {"s", "d"}}
Angles == {-1790, -1350, -900, -450, 0, 450, 900, 1350, 1700, 1790}
MotionInputs ==
    [keys : MotionKeys, lc : {FALSE}, rc : {FALSE}, angle : Angles,
     stamina : {1}, dt : {FRAME_MS}]
    \cup [keys : {{"SPACE", "d"}}, lc : {FALSE}, rc : {FALSE}, angle : Angles,
          stamina : {0, 1}, dt : {FRAME_MS}]

\* walking about among enemies and health items; the mouse stays put
HealthKeys == {{}, {"a"}, {"d"}, {"w"}, {"s", "d"}}
HealthInputs == [keys : HealthKeys, lc : {FALSE}, rc : {FALSE}, angle : {0},
                 stamina : {1}, dt : PlayerDts]
HealthEvents == {NoEvent, EnemyHit, MiscPickup("health")}

PlayerInit == horizon = ShortDt /\ map_data = DefaultMap /\ Booted

CombatNext ==
    \/ \E t \in Dts : new(t)
    \/ \E in \in CombatInputs, ev \in CombatEvents : PlayerFrame(in, ev)

MotionNext ==
    \/ \E t \in Dts : new(t)
    \/ \E in \in MotionInputs : PlayerFrame(in, NoEvent)

HealthNext ==
    \/ \E t \in Dts : new(t)
    \/ \E in \in HealthInputs, ev \in HealthEvents : PlayerFrame(in, ev)

CombatSpec == PlayerInit /\ [][CombatNext]_vars

MotionSpec == PlayerInit /\ [][MotionNext]_vars

HealthSpec == PlayerInit /\ [][HealthNext]_vars

\* the controls that start an animation or are held back by one, and the pickup
\* of the handgun; the frames keep coming: Player.update keeps being called
\* while the level runs
AnimationKeys == {{}, {"r"}, {"3"}, {"4"}}
AnimationInputs == [keys : AnimationKeys, lc : BOOLEAN, rc : BOOLEAN, angle : {0},
                    stamina : {1}, dt : PlayerDts]
AnimationEvents == {NoEvent, WeaponPickup("handgun")}

AnimationFrame == \E in \in AnimationInputs, ev \in AnimationEvents : PlayerFrame(in, ev)

AnimationNext ==
    \/ \E t \in Dts : new(t)
    \/ AnimationFrame

AnimationSpec == PlayerInit /\ [][AnimationNext]_vars /\ WF_vars(AnimationFrame)

\* ================================================================ properties
Flagged == {m \in Live(mobs) : can_find_path[m]}

\* C1: after every window firing exactly one live mob has can_find_path set
\* when the group is not empty, and none when it is empty.
C1_ExactlyOneEligible ==
    fired => Cardinality(Flagged) = (IF mobs = <<>> THEN 0 ELSE 1)

\* C2: at every window firing with at least one live mob, the index compared
\* against the mobs' positions is smaller than the number of live mobs.
C2_IndexInRange ==
    (fired /\ mobs # <<>>) => cmp_idx < Len(mobs)

\* The scheduler is stuck: the index is past the end of a non-empty group.
Stuck == phase = "run" /\ mobs # <<>> /\ mob_idx > Len(mobs)

\* Within a level a stuck scheduler stays stuck and flags no mob: the index
\* only grows and the group only shrinks.
StuckIsPermanent ==
    [][(Stuck /\ phase' = "run") => (granted' = NoMob /\ (Stuck' \/ mobs' = <<>>))]_vars

\* C3: no removal makes the scheduler skip a surviving mob for good.  In a
\* rotation over at most NumMobs mobs, a mob that stays alive is flagged again
\* before NumMobs firings have passed it over.
C3_NoPermanentSkip ==
    \A m \in Live(mobs) : waited[m] < NumMobs

\* C4: over the N firings since the population became the present k mobs,
\* every mob has been flagged N/k times, within plus or minus one.
C4_FairShare ==
    \A m \in Live(mobs) :
        LET k == Len(mobs)
            d == k * period.grants[m] - period.n
        IN d <= k /\ -d <= k

\* C5: when one mob has been removed, each surviving mob is flagged within the
\* rotation that follows (as many firings as there are survivors).
C5_OnlyRemovedTurnLost ==
    (period.removed = 1 /\ period.n >= Len(mobs)) =>
        \A m \in Live(mobs) : period.grants[m] >= 1

\* C6: a window fires only when more than WINDOW ms of simulated time have
\* passed since the previous firing or the level load.
C6_WindowAfterSimulatedTime ==
    fired => sim_at_fire > WINDOW

\* C7: the mob flagged by a frame runs its search later in that same frame.
C7_SearchInGrantingFrame ==
    \A i \in 1..Len(trace) :
        trace[i].op = "grant" =>
            \E j \in (i + 1)..Len(trace) :
                trace[j].op = "find_path" /\ trace[j].mob = trace[i].mob

C9_AllPositionsResolved ==
    pos_log.unresolved = {}

\* C10: positions are written by the entity's own update step only.
C10_OwnUpdateOnly ==
    \A w \in pos_log.writes : w.by = "update"

\* C11: in every Player.update the resolver is called once for x and then once
\* for y; at the x call the hit rectangle has been advanced along x only (its y
\* is the one it had before the frame), and its y is advanced before the y call.
C11_AxisSeparatedResolution ==
    phase = "run" =>
        \A in \in MotionInputs :
            LET u == Player_update(player, in)
            IN /\ Len(u.calls) = 2
               /\ u.calls[1].axis = "x"
               /\ u.calls[2].axis = "y"
               /\ u.calls[1].hit_rect.x = player.pos.x + Trunc(u.vel.x * in.dt, 1000)
               /\ u.calls[1].hit_rect.y = player.hit_rect.y
               /\ u.calls[2].hit_rect.x = u.p.hit_rect.x
               /\ u.calls[2].hit_rect.y = player.pos.y + Trunc(u.vel.y * in.dt, 1000)

\* C11 witness: the player has left its starting tile, and a frame is at hand
\* that advances it along both axes.
C11_Witness ==
    /\ phase = "run"
    /\ player.pos.x > 0
    /\ player.pos.y > 0
    /\ \E in \in MotionInputs :
          LET u == Player_update(player, in)
          IN /\ u.calls[1].hit_rect.x # player.hit_rect.x
             /\ u.calls[2].hit_rect.y # player.hit_rect.y

\* the (column, row) of the map cells that hold '1'
WallCells ==
    UNION {{<<c - 1, r - 1>> : c \in {c \in 1..Len(map_data[r]) : map_data[r][c] = "1"}} :
              r \in 1..Len(map_data)}

\* C12: after Game.new the graph's blocked tiles are exactly the cells of the
\* map that hold '1', each listed once, and there is exactly one Obstacle per
\* such cell, at (column * TILESIZE, row * TILESIZE).
C12_WallsMatchMap ==
    phase = "run" =>
        /\ {graph_walls[k] : k \in 1..Len(graph_walls)} = WallCells
        /\ Len(graph_walls) = Cardinality(WallCells)
        /\ {<<obstacles[k].x, obstacles[k].y>> : k \in 1..Len(obstacles)}
               = {<<cell[1] * TILESIZE, cell[2] * TILESIZE>> : cell \in WallCells}
        /\ Len(obstacles) = Cardinality(WallCells)

\* C12 witness: a level is loaded whose map has walls in both rows and in
\* different columns.
C12_Witness ==
    /\ phase = "run"
    /\ <<1, 0>> \in WallCells
    /\ <<0, 1>> \in WallCells
    /\ Len(obstacles) >= 2

\* the mob after m in the group's order, the first one after the last
Successor(ms, m) == ms[((CountOf(ms, m) + 1) % Len(ms)) + 1]

\* C13: when a firing has flagged a mob and the group has not changed up to
\* and including the next firing, that firing flags the mob's successor in
\* group order (the first mob after the last), whether or not the flagged mob
\* ran a search in between.
C13_RotationAdvancesByOne ==
    [][(phase = "run" /\ fired' /\ prev_grant # NoMob /\ mobs' = mobs)
           => granted' = Successor(mobs, prev_grant)]_vars

\* C13 witness: in a level where no mob has been removed, the rotation has gone
\* round: the first mob has just been flagged for the second time.
C13_Witness ==
    /\ fired
    /\ period.removed = 0
    /\ Len(mobs) > 1
    /\ granted = mobs[1]
    /\ period.grants[granted] >= 2

\* C14: while a reload or melee animation is playing, process_input starts no
\* weapon switch, shot, reload or melee, whatever is pressed: the weapon in
\* hand and every clip and reloads count come out of it unchanged.
C14_NoControlsDuringAnimation ==
    (phase = "run" /\ player.play_static_animation) =>
        \A in \in CombatInputs :
            LET i == process_input(player, in)
            IN /\ i.did = {}
               /\ i.p.weapon = player.weapon
               /\ i.p.arsenal = player.arsenal
               /\ i.p.play_static_animation
               /\ i.p.canned_action = player.canned_action

\* C14 witness: an animation is playing while the player holds a loaded firearm
\* with a spare reload and owns a second firearm, so that every control would
\* have something to do.
C14_Witness ==
    /\ phase = "run"
    /\ player.play_static_animation
    /\ player.weapon = "handgun"
    /\ player.arsenal["handgun"].clip > 0
    /\ player.arsenal["handgun"].reloads > 0
    /\ player.arsenal["rifle"].hasWeapon
    /\ player.since_shot > RATE

\* C15: while frames keep coming, a reload or melee animation that is playing
\* comes to an end.  Until then every frame of the level leaves the frame index
\* where it is or moves it on by one, within the frames of the canned action;
\* the animation ends only from the last frame, and then canned_action is
\* emptied and current_frame is 0.
C15_AnimationEnds ==
    /\ (phase = "run" /\ player.play_static_animation)
           ~> (phase # "run" \/ ~player.play_static_animation)
    /\ [][(phase = "run" /\ player.play_static_animation) =>
            \/ /\ player'.play_static_animation
               /\ player'.canned_action = player.canned_action
               /\ player'.current_frame \in {player.current_frame, player.current_frame + 1}
               /\ player'.current_frame < NumAnimFrames
            \/ /\ ~player'.play_static_animation
               /\ player.current_frame = NumAnimFrames - 1
               /\ player'.canned_action = ""
               /\ player'.current_frame = 0]_vars

\* C15 witness: a reload animation has reached its last frame; the next step of
\* the animation runs past it.
C15_Witness ==
    /\ phase = "run"
    /\ player.play_static_animation
    /\ player.canned_action = "reload"
    /\ player.current_frame = NumAnimFrames - 1

\* the weapon a selection key stands for
WeaponOfKey == [k \in {"1", "2", "3", "4"} |->
                  IF k = "1" THEN "rifle" ELSE IF k = "2" THEN "shotgun"
                  ELSE IF k = "3" THEN "handgun" ELSE "knife"]

\* C16: the weapon in hand is always one the arsenal marks as owned.  A frame
\* in which the only selection key pressed is that of a weapon the player does
\* not own leaves the weapon in hand unchanged; and whatever the arsenal holds,
\* pressing the knife's key alone, while the controls are read, puts the knife
\* in hand.
C16_WeaponIsOwned ==
    /\ player.arsenal[player.weapon].hasWeapon
    /\ phase = "run" =>
          \A in \in CombatInputs :
              LET pressed == in.keys \cap DOMAIN WeaponOfKey
                  i == process_input(player, in)
              IN /\ i.p.arsenal[i.p.weapon].hasWeapon
                 /\ \A k \in DOMAIN WeaponOfKey :
                       (pressed = {k} /\ ~player.arsenal[WeaponOfKey[k]].hasWeapon)
                           => i.p.weapon = player.weapon
                 /\ (pressed = {"4"} /\ accepts_controls(player)) => i.p.weapon = "knife"

\* C16 witness: the player has picked up a rifle and taken it in hand, owns no
\* shotgun, and the controls are being read.
C16_Witness ==
    /\ phase = "run"
    /\ player.weapon = "rifle"
    /\ ~player.arsenal["shotgun"].hasWeapon
    /\ ~player.play_static_animation

\* the compass sector whose documented range holds a rotation (tenths of a
\* degree); a rotation past 180 degrees is the same heading as one 360 lower
DocumentedSector(rot) ==
    LET r == IF rot > 1800 THEN rot - 3600 ELSE rot
    IN IF -225 < r /\ r <= 225 THEN "E"
       ELSE IF 225 < r /\ r <= 675 THEN "NE"
       ELSE IF 675 < r /\ r <= 1125 THEN "N"
       ELSE IF 1125 < r /\ r <= 1575 THEN "NW"
       ELSE IF -1575 < r /\ r <= -1125 THEN "SW"
       ELSE IF -1125 < r /\ r <= -675 THEN "S"
       ELSE IF -675 < r /\ r <= -225 THEN "SE"
       ELSE "W"

\* C17: whatever direction the player had, for every angle to the mouse
\* update_rotation leaves direction at the sector of the new rotation.
C17_DirectionFollowsRotation ==
    phase = "run" =>
        \A in \in MotionInputs :
            LET r == update_rotation(in.angle, player.direction)
            IN r.direction = DocumentedSector(r.rot)

\* C18: the player's health never exceeds PLAYER_HEALTH.
C18_HealthCapped ==
    player_health <= PLAYER_HEALTH

\* C19: no clip or reloads count is ever negative.  In every frame, a shot is
\* fired only from a clip of at least one round and takes exactly one round
\* out of it; a reload is started only with reloads > 0, takes exactly one off
\* it and fills the clip to the clip size; without a shot or a reload the
\* counts stay as they are, as do those of the firearms not in hand.
C19_AmmoNeverNegative ==
    /\ \A f \in Firearms : player.arsenal[f].clip >= 0 /\ player.arsenal[f].reloads >= 0
    /\ phase = "run" =>
          \A in \in CombatInputs :
              LET u == Player_update(player, in)
                  before == player.arsenal[u.p.weapon]
                  after == u.p.arsenal[u.p.weapon]
              IN /\ \A f \in Firearms \ {u.p.weapon} : u.p.arsenal[f] = player.arsenal[f]
                 /\ IF u.p.weapon = "knife"
                    THEN u.did \cap {"shoot", "reload"} = {}
                    ELSE /\ "shoot" \in u.did =>
                               /\ before.clip >= 1
                               /\ "reload" \notin u.did => after.clip = before.clip - 1
                         /\ "reload" \in u.did =>
                               /\ before.reloads > 0
                               /\ after.reloads = before.reloads - 1
                               /\ after.clip = CLIP_SIZE
                         /\ "reload" \notin u.did => after.reloads = before.reloads
                         /\ u.did \cap {"shoot", "reload"} = {} => after = before

\* C19 witness: with the handgun in hand, a shot has just been fired and a
\* reload started in the same frame; the last spare reload is used up.
C19_Witness ==
    /\ phase = "run"
    /\ player.weapon = "handgun"
    /\ player.since_shot = 0
    /\ player.canned_action = "reload"
    /\ player.arsenal["handgun"].clip = CLIP_SIZE
    /\ player.arsenal["handgun"].reloads = 0

====
